---- MODULE Spec2Model ----
(***************************************************************************)
(* Credit ledger and entitlement model of AetherWave Studio.               *)
(*                                                                         *)
(* The server keeps every account in one process-wide MemStorage map and   *)
(* runs on the Node.js event loop.  Every storage method is an async       *)
(* function without an inner await, so its body runs to completion when    *)
(* it is called: deductCredits and updateUserCredits are atomic.  A route   *)
(* handler gives way at each await.  Where what follows an await of        *)
(* storage.getUser rests on a storage call that reads the account again    *)
(* (the music endpoints) or writes nothing (the guarded endpoints), the     *)
(* handler is one step up to its fetch to the gateway or its response.     *)
(* check-reset is one step where calls come one at a time (Spec) and two   *)
(* steps, before and after its await of getUser, where calls are           *)
(* concurrent (SpecResets).                                                *)
(*                                                                         *)
(* Time is counted in hours.                                               *)
(***************************************************************************)
EXTENDS Integers, FiniteSets, Sequences, TLC

VARIABLES users, now, reqs, ret, payments, reconciled

vars == <<users, now, reqs, ret, payments, reconciled>>

----------------------------------------------------------------------------
(* Bounds of the model *)

MaxReqs == 2
MaxNow == 36
TickHours == 12
MaxCredits == 60
MaxPayments == 1

UserIds == {"u1"}
ReqIds == 1..MaxReqs
PaymentIds == 1..MaxPayments

----------------------------------------------------------------------------
\* An optional value (a field or argument that may be undefined) is the
\* empty set or the set of its one value
None == {}

Some(v) == {v}

The(opt) == CHOOSE v \in opt : TRUE

OrElse(opt, default) == IF opt # None THEN The(opt) ELSE default

----------------------------------------------------------------------------
(* shared/schema.ts: plan catalog and service cost table *)

PlanType == {"free", "studio", "creator", "all_access"}
MusicModel == {"V3_5", "V4", "V4_5", "V4_5PLUS", "V5"}
VideoResolution == {"720p", "1080p", "4k"}
ImageEngine == {"dall-e-2", "dall-e-3", "flux", "midjourney", "stable-diffusion"}
ServiceType == {"music_generation", "video_generation", "image_generation", "wav_conversion"}

Unlimited == "unlimited"

PLAN_FEATURES ==
  [free |->
     [wavConversion |-> FALSE,
      allowedVideoResolutions |-> {"720p"},
      allowedImageEngines |-> {"dall-e-2"},
      allowedMusicModels |-> {"V3_5", "V4"},
      maxCreditsPerDay |-> 50],
   studio |->
     [wavConversion |-> TRUE,
      allowedVideoResolutions |-> {"720p", "1080p", "4k"},
      allowedImageEngines |-> {"dall-e-2", "dall-e-3", "flux", "midjourney",
                               "stable-diffusion"},
      allowedMusicModels |-> {"V3_5", "V4", "V4_5", "V4_5PLUS", "V5"},
      maxCreditsPerDay |-> Unlimited],
   creator |->
     [wavConversion |-> TRUE,
      allowedVideoResolutions |-> {"720p", "1080p", "4k"},
      allowedImageEngines |-> {"dall-e-2", "dall-e-3", "flux", "midjourney",
                               "stable-diffusion"},
      allowedMusicModels |-> {"V3_5", "V4", "V4_5", "V4_5PLUS", "V5"},
      maxCreditsPerDay |-> Unlimited],
   all_access |->
     [wavConversion |-> TRUE,
      allowedVideoResolutions |-> {"720p", "1080p", "4k"},
      allowedImageEngines |-> {"dall-e-2", "dall-e-3", "flux", "midjourney",
                               "stable-diffusion"},
      allowedMusicModels |-> {"V3_5", "V4", "V4_5", "V4_5PLUS", "V5"},
      maxCreditsPerDay |-> Unlimited]]

SERVICE_CREDIT_COSTS ==
  [music_generation |-> 5,
   video_generation |-> 10,
   image_generation |-> 3,
   wav_conversion |-> 2]

UNLIMITED_SERVICE_PLANS ==
  [music_generation |-> {"studio", "creator", "all_access"},
   video_generation |-> {"all_access"},
   image_generation |-> {"all_access"},
   wav_conversion |-> {"studio", "creator", "all_access"}]

CREDIT_BUNDLES ==
  [starter |-> [credits |-> 50, bonus |-> None],
   basic |-> [credits |-> 150, bonus |-> Some(10)],
   popular |-> [credits |-> 350, bonus |-> Some(50)],
   mega |-> [credits |-> 750, bonus |-> Some(150)],
   ultimate |-> [credits |-> 2000, bonus |-> Some(500)]]

BundleIds == DOMAIN CREDIT_BUNDLES

\* a plan's daily allowance is a number of credits or the word 'unlimited'
HasDailyAllowance(planType) ==
  ToString(PLAN_FEATURES[planType].maxCreditsPerDay) # ToString(Unlimited)

Max(a, b) == IF a >= b THEN a ELSE b

Min(a, b) == IF a <= b THEN a ELSE b

----------------------------------------------------------------------------
(* server/routes.ts: plan-based validation helper *)

\* validateVideoResolution that looks the resolution up in the free plan
validateVideoResolution_freeOnly(planType, resolution) ==
  resolution \in PLAN_FEATURES["free"].allowedVideoResolutions

validateVideoResolution(planType, resolution) ==
  resolution \in PLAN_FEATURES[planType].allowedVideoResolutions

validateImageEngine(planType, engine) ==
  engine \in PLAN_FEATURES[planType].allowedImageEngines

validateMusicModel(planType, model) ==
  model \in PLAN_FEATURES[planType].allowedMusicModels

----------------------------------------------------------------------------
(* server/storage.ts: MemStorage *)

NoError == "none"

NewUser(t) ==
  [credits |-> 50, planType |-> "free", lastCreditReset |-> t, createdAt |-> t,
   vocalGenderPreference |-> "m"]

\* createUser with lastCreditReset left at the epoch
createUser_epochReset(U, id, t) ==
  (id :> [NewUser(t) EXCEPT !.lastCreditReset = 0]) @@ U

\* createUser: a fresh account under a new id
createUser(U, id, t) == (id :> NewUser(t)) @@ U

\* upsertUser building the record of an existing account as it builds a new
\* one: a field userData lacks takes its default
upsertUser_fromDefaults(U, id, userData, t) ==
  [u \in DOMAIN U \cup {id} |->
     IF u = id
     THEN [credits |-> OrElse(userData.credits, 50),
           planType |-> OrElse(userData.planType, "free"),
           lastCreditReset |-> OrElse(userData.lastCreditReset, t),
           createdAt |-> IF id \in DOMAIN U THEN U[id].createdAt ELSE t,
           vocalGenderPreference |-> OrElse(userData.vocalGenderPreference, "m")]
     ELSE U[u]]

\* upsertUser: userData carries each ledger field or not; the fields it
\* carries overwrite the stored ones, a new account takes the defaults for
\* the fields it lacks
upsertUser(U, id, userData, t) ==
  IF id \in DOMAIN U
  THEN [U EXCEPT ![id] =
          [credits |-> OrElse(userData.credits, U[id].credits),
           planType |-> OrElse(userData.planType, U[id].planType),
           lastCreditReset |-> OrElse(userData.lastCreditReset, U[id].lastCreditReset),
           createdAt |-> U[id].createdAt,
           vocalGenderPreference |->
             OrElse(userData.vocalGenderPreference, U[id].vocalGenderPreference)]]
  ELSE (id :> [credits |-> OrElse(userData.credits, 50),
               planType |-> OrElse(userData.planType, "free"),
               lastCreditReset |-> OrElse(userData.lastCreditReset, t),
               createdAt |-> t,
               vocalGenderPreference |-> OrElse(userData.vocalGenderPreference, "m")])
       @@ U

\* updateUserCredits(userId, credits, lastReset?)
updateUserCredits(U, userId, credits, lastReset) ==
  IF userId \in DOMAIN U
  THEN [U EXCEPT ![userId].credits = credits,
                 ![userId].lastCreditReset = OrElse(lastReset, @)]
  ELSE U

\* checkCredits with the test written user.credits > requiredCredits
checkCredits_strict(U, userId, serviceType) ==
  IF userId \notin DOMAIN U
  THEN [allowed |-> FALSE, reason |-> "insufficient_credits", currentCredits |-> 0,
        requiredCredits |-> SERVICE_CREDIT_COSTS[serviceType]]
  ELSE IF U[userId].planType \in UNLIMITED_SERVICE_PLANS[serviceType]
  THEN [allowed |-> TRUE, reason |-> "unlimited", currentCredits |-> U[userId].credits,
        requiredCredits |-> 0]
  ELSE [allowed |-> U[userId].credits > SERVICE_CREDIT_COSTS[serviceType],
        reason |-> IF U[userId].credits > SERVICE_CREDIT_COSTS[serviceType]
                   THEN "success" ELSE "insufficient_credits",
        currentCredits |-> U[userId].credits,
        requiredCredits |-> SERVICE_CREDIT_COSTS[serviceType]]

\* checkCredits taking every paid plan as exempt for every service
checkCredits_paidPlans(U, userId, serviceType) ==
  IF userId \in DOMAIN U /\ U[userId].planType # "free"
  THEN [allowed |-> TRUE, reason |-> "unlimited", currentCredits |-> U[userId].credits,
        requiredCredits |-> 0]
  ELSE [checkCredits_strict(U, userId, serviceType) EXCEPT
          !.allowed = userId \in DOMAIN U
                        /\ U[userId].credits >= SERVICE_CREDIT_COSTS[serviceType],
          !.reason = IF userId \in DOMAIN U
                          /\ U[userId].credits >= SERVICE_CREDIT_COSTS[serviceType]
                     THEN "success" ELSE "insufficient_credits"]

\* checkCredits(userId, serviceType): the CreditCheckResult; the store is
\* only read
checkCredits(U, userId, serviceType) ==
  IF userId \notin DOMAIN U
  THEN [allowed |-> FALSE, reason |-> "insufficient_credits", currentCredits |-> 0,
        requiredCredits |-> SERVICE_CREDIT_COSTS[serviceType]]
  ELSE
    LET user == U[userId]
        requiredCredits == SERVICE_CREDIT_COSTS[serviceType]
        hasUnlimitedAccess == user.planType \in UNLIMITED_SERVICE_PLANS[serviceType]
        hasSufficientCredits == user.credits >= requiredCredits
    IN IF hasUnlimitedAccess
       THEN [allowed |-> TRUE, reason |-> "unlimited", currentCredits |-> user.credits,
             requiredCredits |-> 0]
       ELSE [allowed |-> hasSufficientCredits,
             reason |-> IF hasSufficientCredits THEN "success"
                                                ELSE "insufficient_credits",
             currentCredits |-> user.credits,
             requiredCredits |-> requiredCredits]

\* updateUserVocalPreference storing a fresh record for the account
updateUserVocalPreference_freshRecord(U, userId, preference) ==
  IF userId \in DOMAIN U
  THEN [U EXCEPT ![userId] =
          [NewUser(U[userId].createdAt) EXCEPT !.vocalGenderPreference = preference]]
  ELSE U

\* updateUserVocalPreference(userId, preference)
updateUserVocalPreference(U, userId, preference) ==
  IF userId \in DOMAIN U
  THEN [U EXCEPT ![userId].vocalGenderPreference = preference]
  ELSE U

\* deductCredits as a bare decrement: neither the balance check nor the
\* zero floor
deductCredits_unchecked(U, userId, serviceType) ==
  IF userId \notin DOMAIN U
  THEN [users |-> U,
        result |-> [success |-> FALSE, newBalance |-> 0, amountDeducted |-> 0,
                    wasUnlimited |-> FALSE, error |-> "User not found"]]
  ELSE [users |-> [U EXCEPT ![userId].credits = @ - SERVICE_CREDIT_COSTS[serviceType]],
        result |-> [success |-> TRUE,
                    newBalance |-> U[userId].credits - SERVICE_CREDIT_COSTS[serviceType],
                    amountDeducted |-> SERVICE_CREDIT_COSTS[serviceType],
                    wasUnlimited |-> FALSE, error |-> NoError]]

\* deductCredits with the balance check, the exemption and the result
\* each changed as the flags say
deductCredits_variant(U, userId, serviceType, strictCheck, noCheck, noExemption, staleBalance) ==
  IF userId \notin DOMAIN U
  THEN [users |-> U,
        result |-> [success |-> FALSE, newBalance |-> 0, amountDeducted |-> 0,
                    wasUnlimited |-> FALSE, error |-> "User not found"]]
  ELSE
    LET user == U[userId]
        requiredCredits == SERVICE_CREDIT_COSTS[serviceType]
        hasUnlimitedAccess ==
          ~noExemption /\ user.planType \in UNLIMITED_SERVICE_PLANS[serviceType]
        insufficient ==
          /\ ~noCheck
          /\ IF strictCheck THEN user.credits <= requiredCredits
                            ELSE user.credits < requiredCredits
    IN IF hasUnlimitedAccess
       THEN [users |-> U,
             result |-> [success |-> TRUE, newBalance |-> user.credits,
                         amountDeducted |-> 0, wasUnlimited |-> TRUE,
                         error |-> NoError]]
       ELSE IF insufficient
       THEN [users |-> U,
             result |-> [success |-> FALSE, newBalance |-> user.credits,
                         amountDeducted |-> 0, wasUnlimited |-> FALSE,
                         error |-> "Insufficient credits"]]
       ELSE LET newCredits == Max(0, user.credits - requiredCredits)
            IN [users |-> [U EXCEPT ![userId].credits = newCredits],
                result |-> [success |-> TRUE,
                            newBalance |-> IF staleBalance THEN user.credits
                                                           ELSE newCredits,
                            amountDeducted |-> requiredCredits,
                            wasUnlimited |-> FALSE, error |-> NoError]]

\* the check written user.credits <= requiredCredits
deductCredits_strictCheck(U, userId, serviceType) ==
  deductCredits_variant(U, userId, serviceType, TRUE, FALSE, FALSE, FALSE)

\* the balance check left out, the zero floor kept
deductCredits_noCheck(U, userId, serviceType) ==
  deductCredits_variant(U, userId, serviceType, FALSE, TRUE, FALSE, FALSE)

\* the exemption of UNLIMITED_SERVICE_PLANS left out
deductCredits_noExemption(U, userId, serviceType) ==
  deductCredits_variant(U, userId, serviceType, FALSE, FALSE, TRUE, FALSE)

\* newBalance taken from the balance before the subtraction
deductCredits_staleBalance(U, userId, serviceType) ==
  deductCredits_variant(U, userId, serviceType, FALSE, FALSE, FALSE, TRUE)

\* the balance check written user.credits < 1: any balance left passes
deductCredits_anyBalance(U, userId, serviceType) ==
  IF userId \in DOMAIN U
       /\ U[userId].planType \notin UNLIMITED_SERVICE_PLANS[serviceType]
       /\ U[userId].credits >= 1
  THEN deductCredits_noCheck(U, userId, serviceType)
  ELSE deductCredits_variant(U, userId, serviceType, FALSE, FALSE, FALSE, FALSE)

\* deductCredits exempting every paid plan for every service
deductCredits_paidExempt(U, userId, serviceType) ==
  IF userId \in DOMAIN U /\ U[userId].planType # "free"
  THEN [users |-> U,
        result |-> [success |-> TRUE, newBalance |-> U[userId].credits,
                    amountDeducted |-> 0, wasUnlimited |-> TRUE, error |-> NoError]]
  ELSE deductCredits_variant(U, userId, serviceType, FALSE, FALSE, FALSE, FALSE)

\* deductCredits(userId, serviceType): the store after the call and the
\* CreditDeductionResult it returns
deductCredits(U, userId, serviceType) ==
  IF userId \notin DOMAIN U
  THEN [users |-> U,
        result |-> [success |-> FALSE, newBalance |-> 0, amountDeducted |-> 0,
                    wasUnlimited |-> FALSE, error |-> "User not found"]]
  ELSE
    LET user == U[userId]
        requiredCredits == SERVICE_CREDIT_COSTS[serviceType]
        hasUnlimitedAccess == user.planType \in UNLIMITED_SERVICE_PLANS[serviceType]
    IN IF hasUnlimitedAccess
       THEN [users |-> U,
             result |-> [success |-> TRUE, newBalance |-> user.credits,
                         amountDeducted |-> 0, wasUnlimited |-> TRUE,
                         error |-> NoError]]
       ELSE IF user.credits < requiredCredits
       THEN [users |-> U,
             result |-> [success |-> FALSE, newBalance |-> user.credits,
                         amountDeducted |-> 0, wasUnlimited |-> FALSE,
                         error |-> "Insufficient credits"]]
       ELSE LET newCredits == Max(0, user.credits - requiredCredits)
            IN [users |-> [U EXCEPT ![userId].credits = newCredits],
                result |-> [success |-> TRUE, newBalance |-> newCredits,
                            amountDeducted |-> requiredCredits,
                            wasUnlimited |-> FALSE, error |-> NoError]]

----------------------------------------------------------------------------
(* server/routes.ts: the handlers, each as the store after the request *)
(* and the response it sends                                            *)

Omitted == "undefined"

NoResult ==
  [success |-> FALSE, newBalance |-> 0, amountDeducted |-> 0,
   wasUnlimited |-> FALSE, error |-> "not called"]

\* A music request: idle, waiting for the gateway's answer (the external
\* call is issued), or answered; deducted is creditResult.success
Idle == [pc |-> "idle", kind |-> "-", deducted |-> FALSE]

Awaiting(kind, creditResult) ==
  [pc |-> "awaitGateway", kind |-> kind, deducted |-> creditResult.success]

Done(creditResult) ==
  [pc |-> "done", kind |-> "-", deducted |-> creditResult.success]

Response(status, error, creditResult) ==
  [status |-> status, error |-> error, creditResult |-> creditResult]

\* the music handler without the return after a failed deduction
musicHandler_noCreditGate(U, kind, auth, userId, body, apiKey) ==
  IF ~auth
  THEN [users |-> U, req |-> Done(NoResult),
        res |-> Response(401, "Unauthorized", NoResult)]
  ELSE IF userId \notin DOMAIN U
  THEN [users |-> U, req |-> Done(NoResult),
        res |-> Response(404, "User not found", NoResult)]
  ELSE
    LET d == deductCredits(U, userId, "music_generation")
        model == IF body.model = Omitted THEN "V4_5" ELSE body.model
    IN IF ~validateMusicModel(U[userId].planType, model)
       THEN [users |-> d.users, req |-> Done(d.result),
             res |-> Response(403, "Model not allowed", d.result)]
       ELSE IF ~apiKey
       THEN [users |-> d.users, req |-> Done(d.result),
             res |-> Response(500, "SUNO API key not configured", d.result)]
       ELSE IF kind = "upload-cover-music" /\ ~body.uploadUrl
       THEN [users |-> d.users, req |-> Done(d.result),
             res |-> Response(400, "Upload URL required", d.result)]
       ELSE [users |-> d.users, req |-> Awaiting(kind, d.result),
             res |-> Response(0, "pending", d.result)]

\* POST /api/generate-music and POST /api/upload-cover-music, from the
\* isAuthenticated middleware up to the fetch to the gateway
musicHandler(U, kind, auth, userId, body, apiKey) ==
  IF ~auth
  THEN [users |-> U, req |-> Done(NoResult),
        res |-> Response(401, "Unauthorized", NoResult)]
  ELSE IF userId \notin DOMAIN U
  THEN [users |-> U, req |-> Done(NoResult),
        res |-> Response(404, "User not found", NoResult)]
  ELSE
    LET user == U[userId]
        d == deductCredits(U, userId, "music_generation")
        creditResult == d.result
        model == IF body.model = Omitted THEN "V4_5" ELSE body.model
        userPlan == user.planType
    IN IF ~creditResult.success
       THEN [users |-> d.users, req |-> Done(creditResult),
             res |-> Response(403, "Insufficient credits", creditResult)]
       ELSE IF ~validateMusicModel(userPlan, model)
       THEN [users |-> d.users, req |-> Done(creditResult),
             res |-> Response(403, "Model not allowed", creditResult)]
       ELSE IF ~apiKey
       THEN [users |-> d.users, req |-> Done(creditResult),
             res |-> Response(500, "SUNO API key not configured", creditResult)]
       ELSE IF kind = "upload-cover-music" /\ ~body.uploadUrl
       THEN [users |-> d.users, req |-> Done(creditResult),
             res |-> Response(400, "Upload URL required", creditResult)]
       ELSE [users |-> d.users, req |-> Awaiting(kind, creditResult),
             res |-> Response(0, "pending", creditResult)]

\* the handler after the gateway's answer: a non-ok HTTP status is passed
\* on, a result code other than 200 and a thrown fault become 500
GatewayOutcomes == {"ok", "http_error", "bad_code", "throw"}

gatewayStatus(outcome) ==
  CASE outcome = "ok" -> 200
    [] outcome = "http_error" -> 502
    [] outcome = "bad_code" -> 500
    [] outcome = "throw" -> 500

gatewayError(outcome) ==
  CASE outcome = "ok" -> NoError
    [] outcome = "http_error" -> "SUNO API error"
    [] outcome = "bad_code" -> "Generation failed"
    [] outcome = "throw" -> "Failed to generate music"

\* the continuation giving the cost back when the gateway call failed
musicHandlerResume_refund(U, req, outcome) ==
  [users |-> IF req.deducted /\ outcome # "ok"
             THEN [u \in DOMAIN U |->
                     [U[u] EXCEPT !.credits = @ + SERVICE_CREDIT_COSTS.music_generation]]
             ELSE U,
   res |-> [status |-> gatewayStatus(outcome), error |-> gatewayError(outcome)]]

\* the music handler from the gateway's answer to its response: the store
\* is not touched again
musicHandlerResume(U, req, outcome) ==
  [users |-> U,
   res |-> [status |-> gatewayStatus(outcome), error |-> gatewayError(outcome)]]

\* check-reset with the allowance added to the balance, and check-reset
\* without the 24 hour test
checkReset_variant(U, auth, userId, t, additive, always) ==
  IF ~auth
  THEN [users |-> U, res |-> [status |-> 401, credits |-> 0, resetOccurred |-> FALSE]]
  ELSE IF userId \notin DOMAIN U
  THEN [users |-> U, res |-> [status |-> 404, credits |-> 0, resetOccurred |-> FALSE]]
  ELSE
    LET user == U[userId]
        hoursSinceReset == t - user.lastCreditReset
        credits == IF additive THEN user.credits + 50 ELSE 50
    IN IF user.planType # "free"
       THEN [users |-> U,
             res |-> [status |-> 200, credits |-> user.credits, resetOccurred |-> FALSE]]
       ELSE IF always \/ hoursSinceReset >= 24
       THEN [users |-> updateUserCredits(U, userId, credits, Some(t)),
             res |-> [status |-> 200, credits |-> credits, resetOccurred |-> TRUE]]
       ELSE [users |-> U,
             res |-> [status |-> 200, credits |-> user.credits, resetOccurred |-> FALSE,
                      hoursUntilReset |-> 24 - hoursSinceReset]]

checkReset_additive(U, auth, userId, t) ==
  checkReset_variant(U, auth, userId, t, TRUE, FALSE)

checkReset_always(U, auth, userId, t) ==
  checkReset_variant(U, auth, userId, t, FALSE, TRUE)

\* check-reset without the test of the plan
checkReset_anyPlan(U, auth, userId, t) ==
  IF ~auth
  THEN [users |-> U, res |-> [status |-> 401, credits |-> 0, resetOccurred |-> FALSE]]
  ELSE IF userId \notin DOMAIN U
  THEN [users |-> U, res |-> [status |-> 404, credits |-> 0, resetOccurred |-> FALSE]]
  ELSE IF t - U[userId].lastCreditReset >= 24
  THEN [users |-> updateUserCredits(U, userId, 50, Some(t)),
        res |-> [status |-> 200, credits |-> 50, resetOccurred |-> TRUE]]
  ELSE [users |-> U,
        res |-> [status |-> 200, credits |-> U[userId].credits, resetOccurred |-> FALSE,
                 hoursUntilReset |-> 24 - (t - U[userId].lastCreditReset)]]

\* POST /api/user/credits/check-reset
checkReset(U, auth, userId, t) ==
  IF ~auth
  THEN [users |-> U, res |-> [status |-> 401, credits |-> 0, resetOccurred |-> FALSE]]
  ELSE IF userId \notin DOMAIN U
  THEN [users |-> U, res |-> [status |-> 404, credits |-> 0, resetOccurred |-> FALSE]]
  ELSE
    LET user == U[userId]
        hoursSinceReset == t - user.lastCreditReset
    IN IF user.planType # "free"
       THEN [users |-> U,
             res |-> [status |-> 200, credits |-> user.credits, resetOccurred |-> FALSE]]
       ELSE IF hoursSinceReset >= 24
       THEN [users |-> updateUserCredits(U, userId, 50, Some(t)),
             res |-> [status |-> 200, credits |-> 50, resetOccurred |-> TRUE]]
       ELSE [users |-> U,
             res |-> [status |-> 200, credits |-> user.credits, resetOccurred |-> FALSE,
                      hoursUntilReset |-> 24 - hoursSinceReset]]

\* check-reset going by a copy of the account made when the call began
checkResetResume_fromCopy(U, user, userId, t) ==
  IF user = None
  THEN [users |-> U, res |-> [status |-> 404, credits |-> 0, resetOccurred |-> FALSE]]
  ELSE IF The(user).planType # "free"
  THEN [users |-> U,
        res |-> [status |-> 200, credits |-> The(user).credits, resetOccurred |-> FALSE]]
  ELSE IF t - The(user).lastCreditReset >= 24
  THEN [users |-> updateUserCredits(U, userId, 50, Some(t)),
        res |-> [status |-> 200, credits |-> 50, resetOccurred |-> TRUE]]
  ELSE [users |-> U,
        res |-> [status |-> 200, credits |-> The(user).credits, resetOccurred |-> FALSE,
                 hoursUntilReset |-> 24 - (t - The(user).lastCreditReset)]]

\* check-reset after its await of storage.getUser.  getUser returns the
\* account object the map holds, and updateUserCredits and deductCredits
\* write into that object: the continuation reads planType, credits and
\* lastCreditReset as they are in the store U when it runs, at time t.
\* user tells what getUser returned when the call began: no account, or
\* the account (its fields then)
checkResetResume(U, user, userId, t) ==
  IF user = None
  THEN [users |-> U, res |-> [status |-> 404, credits |-> 0, resetOccurred |-> FALSE]]
  ELSE checkReset(U, TRUE, userId, t)

\* A check-reset call between its await of getUser and its continuation,
\* and after its response
AwaitingUser(userId, user) ==
  [pc |-> "awaitGetUser", kind |-> "check-reset", deducted |-> FALSE,
   uid |-> userId, user |-> user, resetOccurred |-> FALSE]

Answered(call, res) ==
  [call EXCEPT !.pc = "done", !.resetOccurred = res.resetOccurred]

\* GET /api/user/credits
getCredits(U, auth, userId) ==
  IF ~auth
  THEN [status |-> 401]
  ELSE IF userId \notin DOMAIN U
  THEN [status |-> 404]
  ELSE [status |-> 200, credits |-> U[userId].credits, planType |-> U[userId].planType,
        lastCreditReset |-> U[userId].lastCreditReset]

\* GET /api/user/preferences
getPreferences(U, auth, userId) ==
  IF ~auth
  THEN [users |-> U, res |-> [status |-> 401]]
  ELSE IF userId \notin DOMAIN U
  THEN [users |-> U, res |-> [status |-> 404]]
  ELSE [users |-> U,
        res |-> [status |-> 200,
                 vocalGenderPreference |-> U[userId].vocalGenderPreference]]

\* POST /api/user/preferences
postPreferences(U, auth, userId, body) ==
  IF ~auth
  THEN [users |-> U, res |-> [status |-> 401]]
  ELSE IF userId \notin DOMAIN U
  THEN [users |-> updateUserVocalPreference(U, userId, body.vocalGenderPreference),
        res |-> [status |-> 404]]
  ELSE [users |-> updateUserVocalPreference(U, userId, body.vocalGenderPreference),
        res |-> [status |-> 200,
                 vocalGenderPreference |-> body.vocalGenderPreference]]

\* GET /api/music-status/:taskId and GET /api/wav-status/:taskId: the
\* gateway is asked for the task, no storage call is made
PollOutcomes == {"ready", "pending", "http_error", "throw"}

musicStatus(U, apiKey, outcome) ==
  IF ~apiKey
  THEN [users |-> U, res |-> [status |-> 500]]
  ELSE [users |-> U,
        res |-> [status |-> IF outcome = "throw" THEN 500 ELSE 200]]

wavStatus(U, auth, apiKey, outcome) ==
  IF ~auth
  THEN [users |-> U, res |-> [status |-> 401]]
  ELSE IF ~apiKey
  THEN [users |-> U, res |-> [status |-> 500]]
  ELSE [users |-> U,
        res |-> [status |-> CASE outcome = "http_error" -> 502
                              [] outcome = "throw" -> 500
                              [] OTHER -> 200]]

\* POST /api/wav-callback: the callback is acknowledged, nothing is stored
wavCallback(U, codeIsNumber) ==
  [users |-> U, res |-> [status |-> IF codeIsNumber THEN 200 ELSE 400]]

\* POST /api/upload-audio and GET /api/audio/:id: the file goes to and comes
\* from the uploadedAudio table, the accounts are not read
uploadAudio(U, hasFile) ==
  [users |-> U, res |-> [status |-> IF hasFile THEN 200 ELSE 400]]

serveAudio(U, found) ==
  [users |-> U, res |-> [status |-> IF found THEN 200 ELSE 404]]

\* POST /api/user/credits/deduct
legacyDeduct(U, auth, userId, amountField) ==
  IF ~auth
  THEN [users |-> U, res |-> [status |-> 401, credits |-> 0]]
  ELSE IF userId \notin DOMAIN U
  THEN [users |-> U, res |-> [status |-> 404, credits |-> 0]]
  ELSE
    LET user == U[userId]
        amount == OrElse(amountField, 5)
    IN IF user.planType = "free" /\ user.credits < amount
       THEN [users |-> U, res |-> [status |-> 403, credits |-> user.credits]]
       ELSE IF user.planType \in {"studio", "creator", "all_access"}
       THEN [users |-> U, res |-> [status |-> 200, credits |-> 999999, unlimited |-> TRUE]]
       ELSE LET newCredits == Max(0, user.credits - amount)
            IN [users |-> updateUserCredits(U, userId, newCredits, None),
                res |-> [status |-> 200, credits |-> newCredits, deducted |-> amount]]

\* POST /api/generate-video and POST /api/generate-image: the guard of the
\* requested value, then the answer of the stub (501)
guardedStub(U, auth, userId, allowed, denial) ==
  IF ~auth
  THEN [status |-> 401, error |-> "Unauthorized"]
  ELSE IF userId \notin DOMAIN U
  THEN [status |-> 404, error |-> "User not found"]
  ELSE IF ~allowed
  THEN [status |-> 403, error |-> denial]
  ELSE [status |-> 501, error |-> "not yet implemented"]

videoHandler(U, auth, userId, body) ==
  LET resolution == IF body.resolution = Omitted THEN "720p" ELSE body.resolution
  IN guardedStub(U, auth, userId,
                 userId \in DOMAIN U
                   /\ validateVideoResolution(U[userId].planType, resolution),
                 "Resolution not allowed")

imageHandler(U, auth, userId, body) ==
  LET engine == IF body.engine = Omitted THEN "dall-e-2" ELSE body.engine
  IN guardedStub(U, auth, userId,
                 userId \in DOMAIN U
                   /\ validateImageEngine(U[userId].planType, engine),
                 "Engine not allowed")

\* the answer of convert-to-wav once the conversion call has returned
wavResponse(outcome) ==
  CASE outcome = "ok" -> [status |-> 200, error |-> NoError]
    [] outcome = "http_error" -> [status |-> 502, error |-> "WAV conversion failed"]
    [] outcome = "bad_code" -> [status |-> 500, error |-> "WAV conversion failed"]
    [] outcome = "throw" -> [status |-> 500, error |-> "Failed to convert to WAV"]

\* convert-to-wav without the test of the plan's wavConversion flag
wavHandler_noGate(U, auth, userId, body, apiKey, outcome) ==
  IF ~auth
  THEN [users |-> U, called |-> FALSE, res |-> [status |-> 401, error |-> "Unauthorized"]]
  ELSE IF userId \notin DOMAIN U
  THEN [users |-> U, called |-> FALSE, res |-> [status |-> 404, error |-> "User not found"]]
  ELSE IF ~body.taskId \/ ~body.audioId
  THEN [users |-> U, called |-> FALSE,
        res |-> [status |-> 400, error |-> "Missing parameters"]]
  ELSE IF ~apiKey
  THEN [users |-> U, called |-> FALSE,
        res |-> [status |-> 500, error |-> "SUNO API key not configured"]]
  ELSE [users |-> U, called |-> TRUE, res |-> wavResponse(outcome)]

\* POST /api/convert-to-wav: called tells whether the conversion call was
\* issued, outcome is what the call returned when it was
wavHandler(U, auth, userId, body, apiKey, outcome) ==
  IF ~auth
  THEN [users |-> U, called |-> FALSE, res |-> [status |-> 401, error |-> "Unauthorized"]]
  ELSE IF userId \notin DOMAIN U
  THEN [users |-> U, called |-> FALSE, res |-> [status |-> 404, error |-> "User not found"]]
  ELSE IF ~PLAN_FEATURES[U[userId].planType].wavConversion
  THEN [users |-> U, called |-> FALSE,
        res |-> [status |-> 403, error |-> "WAV conversion not available"]]
  ELSE IF ~body.taskId \/ ~body.audioId
  THEN [users |-> U, called |-> FALSE,
        res |-> [status |-> 400, error |-> "Missing parameters"]]
  ELSE IF ~apiKey
  THEN [users |-> U, called |-> FALSE,
        res |-> [status |-> 500, error |-> "SUNO API key not configured"]]
  ELSE [users |-> U, called |-> TRUE, res |-> wavResponse(outcome)]

----------------------------------------------------------------------------
(* Payment reconciliation: the server side of /api/confirm-payment and of *)
(* the payment webhook                                                    *)

\* a || b of JavaScript on an optional number: b when a is undefined or 0
OrIfFalsy(opt, default) ==
  IF opt = None \/ The(opt) = 0 THEN default ELSE The(opt)

\* the total without the bonus
bundleTotal_creditsOnly(bundleId) ==
  CREDIT_BUNDLES[bundleId].credits

\* totalCredits of the checkout form: bundle.credits + (bundle.bonus || 0)
bundleTotal(bundleId) ==
  CREDIT_BUNDLES[bundleId].credits + OrIfFalsy(CREDIT_BUNDLES[bundleId].bonus, 0)

\* the total the checkout form announces in its toast once the payment is
\* confirmed
announcedCredits(bundleId) ==
  CREDIT_BUNDLES[bundleId].credits + OrIfFalsy(CREDIT_BUNDLES[bundleId].bonus, 0)

\* totalCredits of a card of the bundles modal
modalTotalCredits(bundleId) ==
  CREDIT_BUNDLES[bundleId].credits + OrIfFalsy(CREDIT_BUNDLES[bundleId].bonus, 0)

\* creditAccount that writes the amount as the balance
creditAccount_overwrite(U, userId, amount) ==
  IF userId \in DOMAIN U
  THEN [U EXCEPT ![userId].credits = amount]
  ELSE U

creditAccount(U, userId, amount) ==
  IF userId \in DOMAIN U
  THEN [U EXCEPT ![userId].credits = @ + amount]
  ELSE U

\* reconciliation that credits every delivery
reconcile_everyDelivery(U, R, P, pid) ==
  [users |-> creditAccount(U, P[pid].uid, bundleTotal(P[pid].bundleId)),
   reconciled |-> R \cup {pid},
   res |-> [success |-> TRUE, credited |-> bundleTotal(P[pid].bundleId)]]

\* check-and-record: a payment identifier is credited when it is first seen
reconcile(U, R, P, pid) ==
  IF pid \in R
  THEN [users |-> U, reconciled |-> R, res |-> [success |-> TRUE, credited |-> 0]]
  ELSE [users |-> creditAccount(U, P[pid].uid, bundleTotal(P[pid].bundleId)),
        reconciled |-> R \cup {pid},
        res |-> [success |-> TRUE, credited |-> bundleTotal(P[pid].bundleId)]]

----------------------------------------------------------------------------
(* Inputs *)

RequestedModels == MusicModel \cup {Omitted, "V9"}
MusicKinds == {"generate-music", "upload-cover-music"}

\* the requests the clients send: uploadUrl is a field of upload-cover-music
\* alone, and the middleware answers a request without a session before
\* its body is read
MusicInputs ==
  {i \in [kind : MusicKinds, auth : BOOLEAN, apiKey : BOOLEAN,
          body : [model : RequestedModels, uploadUrl : BOOLEAN]] :
     /\ i.kind = "generate-music" => ~i.body.uploadUrl
     /\ ~i.auth => (i.body.model = Omitted /\ ~i.body.uploadUrl /\ i.apiKey)}
RequestedResolutions == VideoResolution \cup {Omitted, "8k"}
RequestedEngines == ImageEngine \cup {Omitted, "dall-e-4"}
\* taskId and audioId of a convert-to-wav body: given or not
WavInputs == [taskId : BOOLEAN, audioId : BOOLEAN]
LegacyAmounts == {None} \cup {Some(a) : a \in {-5, 0, 7, 100}}

\* userData of a sign-in (profile claims only) or of a plan change
UpsertInputs ==
  [credits : {None}, planType : {None} \cup {Some(p) : p \in PlanType},
   lastCreditReset : {None}, vocalGenderPreference : {None}]

----------------------------------------------------------------------------
(* The state machine *)

Init ==
  /\ users = <<>>
  /\ now = 0
  /\ reqs = [r \in ReqIds |-> Idle]
  /\ ret = [op |-> "init"]
  /\ payments = <<>>
  /\ reconciled = {}

Tick ==
  /\ now + TickHours <= MaxNow
  /\ now' = now + TickHours
  /\ ret' = [op |-> "tick"]
  /\ UNCHANGED <<users, reqs, payments, reconciled>>

CreateUser(id) ==
  /\ id \notin DOMAIN users
  /\ users' = createUser(users, id, now)
  /\ ret' = [op |-> "createUser", uid |-> id]
  /\ UNCHANGED <<now, reqs, payments, reconciled>>

UpsertUser(id, userData) ==
  /\ users' = upsertUser(users, id, userData, now)
  /\ ret' = [op |-> "upsertUser", uid |-> id, isNew |-> (id \notin DOMAIN users),
             userData |-> userData]
  /\ UNCHANGED <<now, reqs, payments, reconciled>>

DeductCredits(userId, serviceType) ==
  /\ users' = deductCredits(users, userId, serviceType).users
  /\ ret' = [op |-> "deductCredits", uid |-> userId, svc |-> serviceType,
             res |-> deductCredits(users, userId, serviceType).result]
  /\ UNCHANGED <<now, reqs, payments, reconciled>>

CheckCredits(userId, serviceType) ==
  /\ ret' = [op |-> "checkCredits", uid |-> userId, svc |-> serviceType,
             res |-> checkCredits(users, userId, serviceType)]
  /\ UNCHANGED <<users, now, reqs, payments, reconciled>>

VideoRequest(auth, userId, body) ==
  /\ ret' = [op |-> "generate-video", uid |-> userId, auth |-> auth,
             requested |-> body.resolution,
             res |-> videoHandler(users, auth, userId, body)]
  /\ UNCHANGED <<users, now, reqs, payments, reconciled>>

ImageRequest(auth, userId, body) ==
  /\ ret' = [op |-> "generate-image", uid |-> userId, auth |-> auth,
             requested |-> body.engine,
             res |-> imageHandler(users, auth, userId, body)]
  /\ UNCHANGED <<users, now, reqs, payments, reconciled>>

\* the guard of the music endpoints, applied to a plan and a model
ValidateMusicModel(planType, model) ==
  /\ ret' = [op |-> "validateMusicModel", planType |-> planType, requested |-> model,
             res |-> validateMusicModel(planType, model)]
  /\ UNCHANGED <<users, now, reqs, payments, reconciled>>

GetCredits(auth, userId) ==
  /\ ret' = [op |-> "credits", uid |-> userId, auth |-> auth,
             res |-> getCredits(users, auth, userId)]
  /\ UNCHANGED <<users, now, reqs, payments, reconciled>>

WavRequest(auth, userId, body, apiKey, outcome) ==
  /\ users' = wavHandler(users, auth, userId, body, apiKey, outcome).users
  /\ ret' = [op |-> "convert-to-wav", uid |-> userId, auth |-> auth,
             called |-> wavHandler(users, auth, userId, body, apiKey, outcome).called,
             res |-> wavHandler(users, auth, userId, body, apiKey, outcome).res]
  /\ UNCHANGED <<now, reqs, payments, reconciled>>

GetPreferences(auth, userId) ==
  /\ users' = getPreferences(users, auth, userId).users
  /\ ret' = [op |-> "preferences", uid |-> userId, auth |-> auth,
             res |-> getPreferences(users, auth, userId).res]
  /\ UNCHANGED <<now, reqs, payments, reconciled>>

PostPreferences(auth, userId, body) ==
  /\ users' = postPreferences(users, auth, userId, body).users
  /\ ret' = [op |-> "preferences/update", uid |-> userId, auth |-> auth,
             res |-> postPreferences(users, auth, userId, body).res]
  /\ UNCHANGED <<now, reqs, payments, reconciled>>

MusicStatus(apiKey, outcome) ==
  /\ users' = musicStatus(users, apiKey, outcome).users
  /\ ret' = [op |-> "music-status", res |-> musicStatus(users, apiKey, outcome).res]
  /\ UNCHANGED <<now, reqs, payments, reconciled>>

WavStatus(auth, apiKey, outcome) ==
  /\ users' = wavStatus(users, auth, apiKey, outcome).users
  /\ ret' = [op |-> "wav-status", auth |-> auth,
             res |-> wavStatus(users, auth, apiKey, outcome).res]
  /\ UNCHANGED <<now, reqs, payments, reconciled>>

WavCallback(codeIsNumber) ==
  /\ users' = wavCallback(users, codeIsNumber).users
  /\ ret' = [op |-> "wav-callback", res |-> wavCallback(users, codeIsNumber).res]
  /\ UNCHANGED <<now, reqs, payments, reconciled>>

UploadAudio(hasFile) ==
  /\ users' = uploadAudio(users, hasFile).users
  /\ ret' = [op |-> "upload-audio", res |-> uploadAudio(users, hasFile).res]
  /\ UNCHANGED <<now, reqs, payments, reconciled>>

ServeAudio(found) ==
  /\ users' = serveAudio(users, found).users
  /\ ret' = [op |-> "audio", res |-> serveAudio(users, found).res]
  /\ UNCHANGED <<now, reqs, payments, reconciled>>

\* a new request takes the first free slot
MusicRequest(r, kind, auth, userId, body, apiKey) ==
  /\ reqs[r] = Idle
  /\ \A q \in ReqIds : q < r => reqs[q] # Idle
  /\ users' = musicHandler(users, kind, auth, userId, body, apiKey).users
  /\ reqs' = [reqs EXCEPT ![r] = musicHandler(users, kind, auth, userId, body, apiKey).req]
  /\ ret' = [op |-> kind, uid |-> userId, auth |-> auth,
             modelOmitted |-> (body.model = Omitted),
             res |-> musicHandler(users, kind, auth, userId, body, apiKey).res]
  /\ UNCHANGED <<now, payments, reconciled>>

GatewayResponds(r, outcome) ==
  /\ reqs[r].pc = "awaitGateway"
  /\ users' = musicHandlerResume(users, reqs[r], outcome).users
  /\ reqs' = [reqs EXCEPT ![r].pc = "done", ![r].kind = "-"]
  /\ ret' = [op |-> "gateway", res |-> musicHandlerResume(users, reqs[r], outcome).res]
  /\ UNCHANGED <<now, payments, reconciled>>

\* the client has read the response: the slot serves the next request
Recycle(r) ==
  /\ reqs[r].pc = "done"
  /\ reqs' = [reqs EXCEPT ![r] = Idle]
  /\ ret' = [op |-> "recycle"]
  /\ UNCHANGED <<users, now, payments, reconciled>>

CheckReset(auth, userId) ==
  /\ users' = checkReset(users, auth, userId, now).users
  /\ ret' = [op |-> "check-reset", uid |-> userId, auth |-> auth,
             res |-> checkReset(users, auth, userId, now).res]
  /\ UNCHANGED <<now, reqs, payments, reconciled>>

LegacyDeduct(auth, userId, amountField) ==
  /\ userId \in DOMAIN users =>
       legacyDeduct(users, auth, userId, amountField).users[userId].credits <= MaxCredits
  /\ users' = legacyDeduct(users, auth, userId, amountField).users
  /\ ret' = [op |-> "credits/deduct", uid |-> userId, auth |-> auth,
             amount |-> amountField,
             res |-> legacyDeduct(users, auth, userId, amountField).res]
  /\ UNCHANGED <<now, reqs, payments, reconciled>>

PaymentSucceeds(pid, userId, bundleId) ==
  /\ pid \notin DOMAIN payments
  /\ userId \in DOMAIN users
  /\ payments' = (pid :> [uid |-> userId, bundleId |-> bundleId]) @@ payments
  /\ ret' = [op |-> "paymentIntent", pid |-> pid]
  /\ UNCHANGED <<users, now, reqs, reconciled>>

Deliver(pid, entry) ==
  /\ pid \in DOMAIN payments
  /\ users' = reconcile(users, reconciled, payments, pid).users
  /\ reconciled' = reconcile(users, reconciled, payments, pid).reconciled
  /\ ret' = [op |-> entry, pid |-> pid,
             res |-> reconcile(users, reconciled, payments, pid).res]
  /\ UNCHANGED <<now, reqs, payments>>

PaymentWebhook(pid) == Deliver(pid, "webhook")

ConfirmPayment(pid) == Deliver(pid, "confirm-payment")

\* check-reset, first part: the handler calls storage.getUser and awaits
\* it; the call keeps what getUser returned
CheckResetStart(r, userId) ==
  /\ reqs[r] = Idle
  /\ \A q \in ReqIds : q < r => reqs[q] # Idle
  /\ reqs' = [reqs EXCEPT ![r] =
                AwaitingUser(userId, IF userId \in DOMAIN users
                                     THEN Some(users[userId]) ELSE None)]
  /\ ret' = [op |-> "getUser", uid |-> userId]
  /\ UNCHANGED <<users, now, payments, reconciled>>

\* check-reset, second part: the continuation tests the account, writes
\* the reset and answers
CheckResetResume(r) ==
  /\ reqs[r].pc = "awaitGetUser"
  /\ users' = checkResetResume(users, reqs[r].user, reqs[r].uid, now).users
  /\ reqs' = [reqs EXCEPT ![r] =
                Answered(@, checkResetResume(users, reqs[r].user, reqs[r].uid, now).res)]
  /\ ret' = [op |-> "check-reset", uid |-> reqs[r].uid, auth |-> TRUE,
             res |-> checkResetResume(users, reqs[r].user, reqs[r].uid, now).res]
  /\ UNCHANGED <<now, payments, reconciled>>

\* the bundles that keep a balance within the model's range
SmallBundles == {b \in BundleIds : bundleTotal(b) <= MaxCredits}

\* The ledger: the storage calls, the credit endpoints and the payments
Next ==
  \/ Tick
  \/ \E id \in UserIds : CreateUser(id)
  \/ \E id \in UserIds, userData \in UpsertInputs : UpsertUser(id, userData)
  \/ \E id \in UserIds, s \in ServiceType : DeductCredits(id, s)
  \/ \E auth \in BOOLEAN, id \in UserIds : CheckReset(auth, id)
  \/ \E auth \in BOOLEAN, id \in UserIds, a \in LegacyAmounts : LegacyDeduct(auth, id, a)
  \/ \E pid \in PaymentIds, id \in UserIds, b \in SmallBundles :
        PaymentSucceeds(pid, id, b)
  \/ \E pid \in PaymentIds : PaymentWebhook(pid)
  \/ \E pid \in PaymentIds : ConfirmPayment(pid)

\* The paid endpoints: the music requests and the gateway beside the
\* accounts and the clock
NextRoutes ==
  \/ Tick
  \/ \E id \in UserIds : CreateUser(id)
  \/ \E id \in UserIds, userData \in UpsertInputs : UpsertUser(id, userData)
  \/ \E r \in ReqIds, id \in UserIds, i \in MusicInputs :
        MusicRequest(r, i.kind, i.auth, id, i.body, i.apiKey)
  \/ \E r \in ReqIds, outcome \in GatewayOutcomes : GatewayResponds(r, outcome)
  \/ \E r \in ReqIds : Recycle(r)

Spec == Init /\ [][Next]_vars

SpecRoutes == Init /\ [][NextRoutes]_vars

\* Concurrent paid requests of one metered account: every slot sends one
\* authenticated request, nothing else touches the account
InitConcurrent ==
  /\ users \in {("u1" :> [credits |-> b, planType |-> "free",
                          lastCreditReset |-> 0, createdAt |-> 0,
                          vocalGenderPreference |-> "m"]) :
                   b \in 0..MaxCredits}
  /\ now = 0
  /\ reqs = [r \in ReqIds |-> Idle]
  /\ ret = [op |-> "init"]
  /\ payments = <<>>
  /\ reconciled = {}

NextConcurrent ==
  \/ \E r \in ReqIds, i \in MusicInputs :
        i.auth /\ MusicRequest(r, i.kind, i.auth, "u1", i.body, i.apiKey)
  \/ \E r \in ReqIds, outcome \in GatewayOutcomes : GatewayResponds(r, outcome)

SpecConcurrent == InitConcurrent /\ [][NextConcurrent]_vars

\* Payments alone: purchases of every bundle and their deliveries
NextPayments ==
  \/ Tick
  \/ \E id \in UserIds : CreateUser(id)
  \/ \E pid \in PaymentIds, id \in UserIds, b \in BundleIds : PaymentSucceeds(pid, id, b)
  \/ \E pid \in PaymentIds : PaymentWebhook(pid)
  \/ \E pid \in PaymentIds : ConfirmPayment(pid)

SpecPayments == Init /\ [][NextPayments]_vars

\* Concurrent check-reset calls: each call is in flight between its await
\* of getUser and its continuation, beside deductions and the clock; every
\* slot serves one call, and no account object is replaced (upsertUser is
\* left out)
NextResets ==
  \/ Tick
  \/ \E id \in UserIds : CreateUser(id)
  \/ \E id \in UserIds : DeductCredits(id, "music_generation")
  \/ \E r \in ReqIds, id \in UserIds : CheckResetStart(r, id)
  \/ \E r \in ReqIds : CheckResetResume(r)

SpecResets == Init /\ [][NextResets]_vars

\* Credits beside concurrent paid requests of one metered account whose
\* balance starts at a multiple of the cost or just below one
StartBalances ==
  {k * SERVICE_CREDIT_COSTS.music_generation - d : k \in 1..(MaxReqs + 1), d \in {0, 1}}

InitCredit ==
  /\ users \in {("u1" :> [credits |-> b, planType |-> "free",
                          lastCreditReset |-> 0, createdAt |-> 0,
                          vocalGenderPreference |-> "m"]) :
                   b \in StartBalances}
  /\ now = 0
  /\ reqs = [r \in ReqIds |-> Idle]
  /\ ret = [op |-> "init"]
  /\ payments = <<>>
  /\ reconciled = {}

NextCredit ==
  \/ \E r \in ReqIds, i \in MusicInputs :
        /\ i.auth /\ i.apiKey /\ i.kind = "generate-music"
        /\ MusicRequest(r, i.kind, i.auth, "u1", i.body, i.apiKey)
  \/ \E r \in ReqIds, outcome \in GatewayOutcomes : GatewayResponds(r, outcome)
  \/ \E pid \in PaymentIds, b \in BundleIds : PaymentSucceeds(pid, "u1", b)
  \/ \E pid \in PaymentIds : PaymentWebhook(pid)
  \/ \E pid \in PaymentIds : ConfirmPayment(pid)

SpecCredit == InitCredit /\ [][NextCredit]_vars

\* The ledger's queries beside the accounts and the deductions
NextQueries ==
  \/ \E id \in UserIds : CreateUser(id)
  \/ \E id \in UserIds, userData \in UpsertInputs : UpsertUser(id, userData)
  \/ \E id \in UserIds, s \in ServiceType : DeductCredits(id, s)
  \/ \E id \in UserIds, s \in ServiceType : CheckCredits(id, s)
  \/ \E auth \in BOOLEAN, id \in UserIds : GetCredits(auth, id)
  \/ \E auth \in BOOLEAN, id \in UserIds : CheckReset(auth, id)
  \/ \E auth \in BOOLEAN, id \in UserIds, a \in LegacyAmounts : LegacyDeduct(auth, id, a)

SpecQueries == Init /\ [][NextQueries]_vars

\* The entitlement guard: the guarded endpoints beside the accounts and
\* their plan changes
NextGuard ==
  \/ \E id \in UserIds : CreateUser(id)
  \/ \E id \in UserIds, userData \in UpsertInputs : UpsertUser(id, userData)
  \/ \E id \in UserIds, s \in ServiceType : DeductCredits(id, s)
  \/ \E auth \in BOOLEAN, id \in UserIds, v \in RequestedResolutions :
        VideoRequest(auth, id, [resolution |-> v])
  \/ \E auth \in BOOLEAN, id \in UserIds, e \in RequestedEngines :
        ImageRequest(auth, id, [engine |-> e])
  \/ \E p \in PlanType, m \in RequestedModels \ {Omitted} : ValidateMusicModel(p, m)
  \/ \E auth \in BOOLEAN, id \in UserIds, body \in WavInputs, apiKey \in BOOLEAN,
        outcome \in GatewayOutcomes :
        WavRequest(auth, id, body, apiKey, outcome)

SpecGuard == Init /\ [][NextGuard]_vars

\* The endpoints beside the ledger: polling, callback, queries, preferences,
\* audio files and the guarded stubs, next to deductions, resets and plan
\* changes
VocalPreferences == {"m", "f"}

NextFrame ==
  \/ Tick
  \/ \E id \in UserIds : CreateUser(id)
  \/ \E id \in UserIds, userData \in UpsertInputs : UpsertUser(id, userData)
  \/ \E id \in UserIds : DeductCredits(id, "music_generation")
  \/ \E id \in UserIds : CheckReset(TRUE, id)
  \/ \E id \in UserIds, s \in ServiceType : CheckCredits(id, s)
  \/ \E auth \in BOOLEAN, id \in UserIds : GetCredits(auth, id)
  \/ \E auth \in BOOLEAN, id \in UserIds : GetPreferences(auth, id)
  \/ \E auth \in BOOLEAN, id \in UserIds, v \in VocalPreferences :
        PostPreferences(auth, id, [vocalGenderPreference |-> v])
  \/ \E apiKey \in BOOLEAN, outcome \in PollOutcomes : MusicStatus(apiKey, outcome)
  \/ \E auth \in BOOLEAN, apiKey \in BOOLEAN, outcome \in PollOutcomes :
        WavStatus(auth, apiKey, outcome)
  \/ \E codeIsNumber \in BOOLEAN : WavCallback(codeIsNumber)
  \/ \E hasFile \in BOOLEAN : UploadAudio(hasFile)
  \/ \E found \in BOOLEAN : ServeAudio(found)
  \/ \E auth \in BOOLEAN, id \in UserIds, v \in RequestedResolutions :
        VideoRequest(auth, id, [resolution |-> v])
  \/ \E auth \in BOOLEAN, id \in UserIds, e \in RequestedEngines :
        ImageRequest(auth, id, [engine |-> e])

SpecFrame == Init /\ [][NextFrame]_vars

----------------------------------------------------------------------------
(* Properties *)

RECURSIVE SumTotals(_, _)
SumTotals(P, pids) ==
  IF pids = {} THEN 0
  ELSE LET pid == CHOOSE x \in pids : TRUE
       IN bundleTotal(P[pid].bundleId) + SumTotals(P, pids \ {pid})

Deliveries == {"webhook", "confirm-payment"}

\* C1: a generate-music or upload-cover-music request that is rejected
\* because its model is not allowed for the account's plan leaves the
\* account's balance as it was before the request.
C1_DeniedRequestKeepsBalance ==
  [][(ret'.op \in MusicKinds /\ ret'.res.error = "Model not allowed")
       => users'[ret'.uid].credits = users[ret'.uid].credits]_vars

\* C2: in every reachable state every account's balance is an integer >= 0,
\* whatever sequence of deductCredits calls (all four services), daily
\* resets, legacy deductions of any integer amount and credit additions ran.
C2_BalanceNonNegative ==
  \A u \in DOMAIN users : users[u].credits \in Nat

C2_Witness ==
  /\ ret.op = "credits/deduct"
  /\ ret.res.status = 200
  /\ ret.uid \in DOMAIN users
  /\ users[ret.uid].credits = 0
  /\ reconciled # {}

\* C3: a music request waits for the gateway (its external call is issued)
\* only when deductCredits returned success for that request, and a request
\* that is unauthenticated, has no account or failed its deduction is
\* answered without the call.
C3_CallOnlyAfterDeduction ==
  /\ \A r \in ReqIds : reqs[r].pc = "awaitGateway" => reqs[r].deducted
  /\ ret.op \in MusicKinds =>
       /\ ret.res.error = "pending" =>
            (ret.auth /\ ret.uid \in DOMAIN users /\ ret.res.creditResult.success)
       /\ (~ret.auth \/ ret.uid \notin DOMAIN users \/ ~ret.res.creditResult.success)
            => ret.res.error # "pending"

C3_Witness ==
  /\ ret.op \in MusicKinds
  /\ ret.res.error = "pending"
  /\ ret.res.creditResult.amountDeducted = 5
  /\ \E r \in ReqIds : reqs[r].pc = "awaitGateway"
  /\ \E r \in ReqIds : reqs[r].pc = "done" /\ ~reqs[r].deducted

\* C4: k concurrent paid requests of one metered account with balance b:
\* once each has run its deduction, exactly min(k, floor(b / cost)) of them
\* succeeded and the balance is b - cost * (number of successes).
Succeeded == {r \in ReqIds : reqs[r].deducted}

C4_ConcurrentDeductions ==
  \A b \in 0..MaxCredits :
    (users["u1"].credits = b) =>
      []((\A r \in ReqIds : reqs[r].pc # "idle") =>
           /\ Cardinality(Succeeded)
                = Min(MaxReqs, b \div SERVICE_CREDIT_COSTS.music_generation)
           /\ users["u1"].credits
                = b - SERVICE_CREDIT_COSTS.music_generation * Cardinality(Succeeded))

C4_Witness ==
  /\ \A r \in ReqIds : reqs[r].pc # "idle"
  /\ Cardinality(Succeeded) = 1
  /\ MaxReqs > 1
  /\ users["u1"].credits = 2

\* C5: deductCredits on an existing account whose plan is not exempt for
\* the service and whose balance covers the cost lowers the balance by
\* exactly the cost and returns success, wasUnlimited = FALSE,
\* amountDeducted = cost and newBalance = the stored balance after the call.
C5_DeductExactCost ==
  [][\A u \in UserIds, s \in ServiceType :
       ( /\ ret'.op = "deductCredits" /\ ret'.uid = u /\ ret'.svc = s
         /\ u \in DOMAIN users
         /\ users[u].planType \notin UNLIMITED_SERVICE_PLANS[s]
         /\ users[u].credits >= SERVICE_CREDIT_COSTS[s] )
       => /\ users'[u].credits = users[u].credits - SERVICE_CREDIT_COSTS[s]
          /\ ret'.res.success
          /\ ~ret'.res.wasUnlimited
          /\ ret'.res.amountDeducted = SERVICE_CREDIT_COSTS[s]
          /\ ret'.res.newBalance = users'[u].credits]_vars

C5_Witness ==
  /\ ret.op = "deductCredits"
  /\ ret.svc = "music_generation"
  /\ ret.res.success
  /\ ret.res.amountDeducted = 5
  /\ ret.res.newBalance = 45
  /\ users[ret.uid].planType = "free"
  /\ users[ret.uid].credits = 45

\* C6: deductCredits on a non-exempt account whose balance is below the
\* cost leaves the account unchanged and returns success = FALSE,
\* amountDeducted = 0, wasUnlimited = FALSE, newBalance = the untouched
\* balance, and an error.
C6_InsufficientLeavesBalance ==
  [][\A u \in UserIds, s \in ServiceType :
       ( /\ ret'.op = "deductCredits" /\ ret'.uid = u /\ ret'.svc = s
         /\ u \in DOMAIN users
         /\ users[u].planType \notin UNLIMITED_SERVICE_PLANS[s]
         /\ users[u].credits < SERVICE_CREDIT_COSTS[s] )
       => /\ users' = users
          /\ ~ret'.res.success
          /\ ~ret'.res.wasUnlimited
          /\ ret'.res.amountDeducted = 0
          /\ ret'.res.newBalance = users[u].credits
          /\ ret'.res.error # NoError]_vars

C6_Witness ==
  /\ ret.op = "deductCredits"
  /\ ret.svc = "music_generation"
  /\ ~ret.res.success
  /\ ret.res.error = "Insufficient credits"
  /\ users[ret.uid].planType = "free"
  /\ users[ret.uid].credits = 3

\* C7: deductCredits for an account whose plan is in
\* UNLIMITED_SERVICE_PLANS[service] never changes the balance, whatever it
\* is, and returns success, wasUnlimited = TRUE, amountDeducted = 0; studio,
\* creator and all_access are never charged for music_generation.
C7_UnlimitedNeverCharged ==
  [][\A u \in UserIds, s \in ServiceType :
       ( /\ ret'.op = "deductCredits" /\ ret'.uid = u /\ ret'.svc = s
         /\ u \in DOMAIN users
         /\ \/ users[u].planType \in UNLIMITED_SERVICE_PLANS[s]
            \/ /\ s = "music_generation"
               /\ users[u].planType \in {"studio", "creator", "all_access"} )
       => /\ users' = users
          /\ ret'.res.success
          /\ ret'.res.wasUnlimited
          /\ ret'.res.amountDeducted = 0]_vars

C7_Witness ==
  /\ ret.op = "deductCredits"
  /\ ret.svc = "music_generation"
  /\ ret.res.wasUnlimited
  /\ users[ret.uid].planType = "studio"
  /\ users[ret.uid].credits = 0

\* C8: however often and in whatever order the webhook and the
\* confirm-payment fallback deliver a payment identifier, the account's
\* balance has grown by the bundle's credits + bonus exactly once for every
\* identifier delivered, and every delivery reports success.
C8_PaymentCreditedOnce ==
  /\ \A u \in DOMAIN users :
       users[u].credits =
         NewUser(0).credits
           + SumTotals(payments, {pid \in reconciled : payments[pid].uid = u})
  /\ ret.op \in Deliveries => (ret.pid \in reconciled /\ ret.res.success)

C8_Witness ==
  /\ ret.op \in Deliveries
  /\ ret.res.credited = 0
  /\ payments[ret.pid].bundleId = "popular"
  /\ users[payments[ret.pid].uid].credits = 450

\* C9: check-reset on a free account whose lastCreditReset is 24 hours or
\* more in the past sets the balance to exactly the free plan's daily
\* allowance (50), whatever it was, sets lastCreditReset to now and reports
\* resetOccurred = TRUE.
C9_ResetSetsAllowance ==
  [][\A u \in UserIds :
       ( /\ ret'.op = "check-reset" /\ ret'.uid = u /\ ret'.auth
         /\ u \in DOMAIN users
         /\ users[u].planType = "free"
         /\ now - users[u].lastCreditReset >= 24 )
       => /\ users'[u].credits = PLAN_FEATURES.free.maxCreditsPerDay
          /\ users'[u].credits = 50
          /\ users'[u].lastCreditReset = now
          /\ ret'.res.resetOccurred
          /\ ret'.res.credits = 50]_vars

C9_Witness ==
  /\ ret.op = "check-reset"
  /\ ret.res.resetOccurred
  /\ users[ret.uid].credits = 50
  /\ users[ret.uid].lastCreditReset = now
  /\ users[ret.uid].lastCreditReset >= users[ret.uid].createdAt + 24

\* C10: a check-reset call made less than 24 hours after the account's
\* lastCreditReset (the time of its latest reset) changes neither the
\* balance nor lastCreditReset and reports resetOccurred = FALSE: credits
\* deducted since the reset are not restored.
C10_NoResetInsideWindow ==
  [][\A u \in UserIds :
       ( /\ ret'.op = "check-reset" /\ ret'.uid = u
         /\ u \in DOMAIN users
         /\ now - users[u].lastCreditReset < 24 )
       => /\ users' = users
          /\ ~ret'.res.resetOccurred]_vars

C10_Witness ==
  /\ ret.op = "check-reset"
  /\ ret.auth
  /\ ret.uid \in DOMAIN users
  /\ ~ret.res.resetOccurred
  /\ users[ret.uid].planType = "free"
  /\ users[ret.uid].lastCreditReset > users[ret.uid].createdAt
  /\ now > users[ret.uid].lastCreditReset
  /\ users[ret.uid].credits < 50

\* C11: of the concurrent check-reset calls of one free account that all
\* began when 24 hours or more had passed since lastCreditReset, at most one
\* applies a reset: no two calls that began in the same period both report
\* resetOccurred, and a call that goes on after another call's reset has
\* advanced lastCreditReset reports resetOccurred = FALSE and writes
\* nothing, so a deduction made since that reset is not overwritten.
C11_OneResetPerPeriod ==
  /\ [](\A r1, r2 \in ReqIds :
          ( /\ r1 # r2
            /\ reqs[r1].kind = "check-reset" /\ reqs[r2].kind = "check-reset"
            /\ reqs[r1].resetOccurred /\ reqs[r2].resetOccurred )
          => The(reqs[r1].user).lastCreditReset # The(reqs[r2].user).lastCreditReset)
  /\ [][\A r \in ReqIds :
          ( /\ reqs[r].pc = "awaitGetUser"
            /\ reqs'[r].pc = "done"
            /\ reqs[r].user # None
            /\ The(reqs[r].user).planType = "free"
            /\ now - The(reqs[r].user).lastCreditReset >= 24
            /\ users[reqs[r].uid].lastCreditReset > The(reqs[r].user).lastCreditReset )
          => /\ users' = users
             /\ ~reqs'[r].resetOccurred]_vars

C11_Witness ==
  /\ \A r \in ReqIds : reqs[r].pc = "done" /\ reqs[r].kind = "check-reset"
  /\ \A r \in ReqIds : reqs[r].user # None
  /\ \A r \in ReqIds : now - The(reqs[r].user).lastCreditReset >= 24
  /\ Cardinality({r \in ReqIds : reqs[r].resetOccurred}) = 1
  /\ users["u1"].lastCreditReset = now
  /\ users["u1"].credits = 50 - SERVICE_CREDIT_COSTS.music_generation
  /\ ret.op = "check-reset"
  /\ ~ret.res.resetOccurred

\* C12: whenever 24 hours or more have passed since a free account's
\* lastCreditReset, the next generate-music or upload-cover-music request is
\* charged against the refreshed balance of 50: its deduction succeeds and
\* leaves 50 minus the cost, without a check-reset call before it.
C12_PaidRequestRefreshesAllowance ==
  [][\A u \in UserIds :
       ( /\ ret'.op \in MusicKinds /\ ret'.uid = u /\ ret'.auth
         /\ u \in DOMAIN users
         /\ users[u].planType = "free"
         /\ now - users[u].lastCreditReset >= 24 )
       => /\ ret'.res.creditResult.success
          /\ users'[u].credits
               = PLAN_FEATURES.free.maxCreditsPerDay
                   - SERVICE_CREDIT_COSTS.music_generation]_vars

\* C13: check-reset on an account whose plan has no finite daily allowance
\* (studio, creator, all_access) changes neither the balance nor
\* lastCreditReset and reports resetOccurred = FALSE whatever time has
\* passed; a reset that is applied is applied to a plan with a finite
\* allowance and writes that plan's maxCreditsPerDay.
C13_ResetOnlyFinitePlans ==
  [][\A u \in UserIds :
       ( /\ ret'.op = "check-reset" /\ ret'.uid = u /\ ret'.auth
         /\ u \in DOMAIN users )
       => /\ users[u].planType \in {"studio", "creator", "all_access"}
               => ~HasDailyAllowance(users[u].planType)
          /\ ~HasDailyAllowance(users[u].planType)
               => (users' = users /\ ~ret'.res.resetOccurred)
          /\ ret'.res.resetOccurred
               => /\ HasDailyAllowance(users[u].planType)
                  /\ users'[u].credits = PLAN_FEATURES[users[u].planType].maxCreditsPerDay
                  /\ ret'.res.credits = PLAN_FEATURES[users[u].planType].maxCreditsPerDay]_vars

C13_Witness ==
  /\ ret.op = "check-reset"
  /\ ret.auth
  /\ ret.uid \in DOMAIN users
  /\ users[ret.uid].planType = "creator"
  /\ ~ret.res.resetOccurred
  /\ now - users[ret.uid].lastCreditReset >= 24
  /\ users[ret.uid].credits < 50

\* C14: the amount by which a client's request lowers a balance is an
\* entry of SERVICE_CREDIT_COSTS and does not depend on the request's body:
\* the same request with any other body leaves the same balance.
C14_CostNeverFromCaller ==
  [][\A u \in UserIds :
       ( /\ ret'.op = "credits/deduct" /\ ret'.uid = u /\ ret'.auth
         /\ u \in DOMAIN users )
       => /\ users[u].credits - users'[u].credits
               \in {0} \cup {SERVICE_CREDIT_COSTS[s] : s \in ServiceType}
          /\ \A a \in LegacyAmounts :
               legacyDeduct(users, TRUE, u, a).users[u].credits = users'[u].credits]_vars

\* C15: a credit of n >= 0 leaves the balance at exactly the balance before
\* it plus n, never lower, also between the deductions of concurrent paid
\* requests: from a start balance b the balance is always b plus the
\* credits applied minus the cost of every successful deduction.
C15_CreditNeverLost ==
  /\ \A b \in StartBalances :
       (users["u1"].credits = b) =>
         [](users["u1"].credits
              = b + SumTotals(payments, reconciled)
                  - SERVICE_CREDIT_COSTS.music_generation * Cardinality(Succeeded))
  /\ [][ret'.op \in Deliveries =>
          /\ ret'.res.credited >= 0
          /\ users'["u1"].credits = users["u1"].credits + ret'.res.credited
          /\ users'["u1"].credits >= users["u1"].credits]_vars

C15_Witness ==
  /\ ret.op \in Deliveries
  /\ ret.res.credited > 0
  /\ \E r \in ReqIds : reqs[r].pc = "awaitGateway" /\ reqs[r].deducted
  /\ \E r \in ReqIds : reqs[r].pc = "idle"
  /\ users["u1"].credits > ret.res.credited

\* C16: checkCredits on an existing account returns allowed with reason
\* 'unlimited' exactly when the plan is in UNLIMITED_SERVICE_PLANS[service];
\* otherwise allowed is (balance >= cost), the reason is 'success' when the
\* balance covers the cost and 'insufficient_credits' when it does not;
\* currentCredits is the stored balance; no state changes.
C16_CheckCreditsResult ==
  [][\A u \in UserIds, s \in ServiceType :
       ( /\ ret'.op = "checkCredits" /\ ret'.uid = u /\ ret'.svc = s
         /\ u \in DOMAIN users )
       => /\ <<users', now', reqs', payments', reconciled'>>
               = <<users, now, reqs, payments, reconciled>>
          /\ ret'.res.currentCredits = users[u].credits
          /\ (ret'.res.allowed /\ ret'.res.reason = "unlimited")
               <=> users[u].planType \in UNLIMITED_SERVICE_PLANS[s]
          /\ ret'.res.reason = "unlimited"
               <=> users[u].planType \in UNLIMITED_SERVICE_PLANS[s]
          /\ users[u].planType \notin UNLIMITED_SERVICE_PLANS[s]
               => /\ ret'.res.allowed <=> users[u].credits >= SERVICE_CREDIT_COSTS[s]
                  /\ ret'.res.reason =
                       IF users[u].credits >= SERVICE_CREDIT_COSTS[s]
                       THEN "success" ELSE "insufficient_credits"]_vars

C16_Witness ==
  /\ ret.op = "checkCredits"
  /\ ret.svc = "music_generation"
  /\ ret.uid \in DOMAIN users
  /\ ret.res.allowed
  /\ ret.res.reason = "success"
  /\ ret.res.currentCredits = 5
  /\ users[ret.uid].credits = 5

\* C17: the guard accepts a requested value exactly when the plan allows
\* it: free allows the music models V3_5 and V4, the resolution 720p and
\* the engine dall-e-2 and nothing else; studio, creator and all_access
\* allow every music model, every resolution and every image engine, and
\* no value outside the catalog.
Entitled(planType, dimension) ==
  IF planType = "free"
  THEN CASE dimension = "music" -> {"V3_5", "V4"}
         [] dimension = "video" -> {"720p"}
         [] dimension = "image" -> {"dall-e-2"}
  ELSE CASE dimension = "music" -> MusicModel
         [] dimension = "video" -> VideoResolution
         [] dimension = "image" -> ImageEngine

C17_GuardMatchesCatalog ==
  /\ ret.op = "validateMusicModel" =>
       (ret.res <=> ret.requested \in Entitled(ret.planType, "music"))
  /\ (ret.op = "generate-video" /\ ret.auth /\ ret.uid \in DOMAIN users) =>
       /\ ret.res.status \in {403, 501}
       /\ ret.res.status = 501 <=>
            (IF ret.requested = Omitted THEN "720p" ELSE ret.requested)
              \in Entitled(users[ret.uid].planType, "video")
  /\ (ret.op = "generate-image" /\ ret.auth /\ ret.uid \in DOMAIN users) =>
       /\ ret.res.status \in {403, 501}
       /\ ret.res.status = 501 <=>
            (IF ret.requested = Omitted THEN "dall-e-2" ELSE ret.requested)
              \in Entitled(users[ret.uid].planType, "image")

C17_Witness ==
  /\ ret.op = "generate-video"
  /\ ret.auth
  /\ ret.uid \in DOMAIN users
  /\ users[ret.uid].planType = "creator"
  /\ ret.requested = "4k"
  /\ ret.res.status = 501

\* C18: a ledger operation addressed to an account that does not exist
\* (checkCredits, deductCredits, the credits query, check-reset, the legacy
\* deduct, the paid generation endpoints) reports not-found, which is not
\* the report of insufficient credits, and creates or changes no account.
C18_MissingAccountNotFound ==
  [][\A u \in UserIds :
       (ret'.uid = u /\ u \notin DOMAIN users) =>
         /\ ret'.op \in {"checkCredits", "deductCredits", "credits", "check-reset",
                         "credits/deduct"} \cup MusicKinds
              => users' = users
         /\ ret'.op = "checkCredits" =>
              /\ ~ret'.res.allowed
              /\ ret'.res.reason \notin {"insufficient_credits", "success", "unlimited"}
         /\ ret'.op = "deductCredits" =>
              /\ ~ret'.res.success
              /\ ret'.res.error \notin {"Insufficient credits", NoError}
         /\ (ret'.op \in {"credits", "check-reset", "credits/deduct"} \cup MusicKinds
               /\ ret'.auth)
              => ret'.res.status = 404]_vars

\* C19: an accepted paid request deducts its cost exactly once: the
\* gateway's answer, whatever it is (HTTP error, result code other than
\* 200, thrown fault, success), changes no balance, and at every moment the
\* balance is the start balance minus one cost for every request whose
\* deduction succeeded.
C19_DeductedOncePerRequest ==
  /\ [][ret'.op = "gateway" => users' = users]_vars
  /\ \A b \in 0..MaxCredits :
       (users["u1"].credits = b) =>
         [](users["u1"].credits
              = b - SERVICE_CREDIT_COSTS.music_generation * Cardinality(Succeeded))

C19_Witness ==
  /\ ret.op = "gateway"
  /\ ret.res.error = "Failed to generate music"
  /\ \A r \in ReqIds : reqs[r].pc = "done" /\ reqs[r].deducted
  /\ users["u1"].credits = 0

\* C20: convert-to-wav issues the conversion call only for an account whose
\* plan has wavConversion (studio, creator, all_access); a free account
\* gets 403 with no call; no request changes a balance; and every plan that
\* passes the gate is exempt from metering for wav_conversion.
C20_WavGate ==
  [][\A u \in UserIds :
       ( /\ ret'.op = "convert-to-wav" /\ ret'.uid = u /\ ret'.auth
         /\ u \in DOMAIN users )
       => /\ users' = users
          /\ ret'.called =>
               /\ PLAN_FEATURES[users[u].planType].wavConversion
               /\ users[u].planType \in {"studio", "creator", "all_access"}
          /\ users[u].planType = "free" => (ret'.res.status = 403 /\ ~ret'.called)
          /\ ret'.res.status # 403 =>
               /\ users[u].planType \in UNLIMITED_SERVICE_PLANS.wav_conversion
               /\ deductCredits(users, u, "wav_conversion").result.wasUnlimited
               /\ deductCredits(users, u, "wav_conversion").users = users]_vars

C20_Witness ==
  /\ ret.op = "convert-to-wav"
  /\ ret.auth
  /\ ret.uid \in DOMAIN users
  /\ ret.called
  /\ ret.res.status = 200
  /\ users[ret.uid].planType = "studio"
  /\ users[ret.uid].credits < SERVICE_CREDIT_COSTS.wav_conversion

\* C21: the credits a purchase grants are the bundle's credits plus its
\* bonus, a missing bonus counting as 0: starter 50, basic 160, popular 400,
\* mega 900, ultimate 2500; the totals the client shows and announces are
\* that same number.
ClaimedTotals ==
  [starter |-> 50, basic |-> 160, popular |-> 400, mega |-> 900, ultimate |-> 2500]

\* the claimed totals of the payments pids
RECURSIVE ClaimedSum(_, _)
ClaimedSum(P, pids) ==
  IF pids = {} THEN 0
  ELSE LET pid == CHOOSE x \in pids : TRUE
       IN ClaimedTotals[P[pid].bundleId] + ClaimedSum(P, pids \ {pid})

C21_BundleTotals ==
  /\ \A pid \in DOMAIN payments :
       /\ bundleTotal(payments[pid].bundleId) = ClaimedTotals[payments[pid].bundleId]
       /\ announcedCredits(payments[pid].bundleId) = bundleTotal(payments[pid].bundleId)
       /\ modalTotalCredits(payments[pid].bundleId) = bundleTotal(payments[pid].bundleId)
  /\ (ret.op \in Deliveries /\ ret.res.credited > 0) =>
       /\ ret.res.credited = ClaimedTotals[payments[ret.pid].bundleId]
       /\ ret.res.credited = announcedCredits(payments[ret.pid].bundleId)
       /\ users[payments[ret.pid].uid].credits
            = NewUser(0).credits
                + ClaimedSum(payments,
                             {pid \in reconciled :
                                payments[pid].uid = payments[ret.pid].uid})

C21_Witness ==
  /\ ret.op = "confirm-payment"
  /\ payments[ret.pid].bundleId = "starter"
  /\ CREDIT_BUNDLES.starter.bonus = None
  /\ ret.res.credited = 50
  /\ users[payments[ret.pid].uid].credits = 100

\* C22: an account's balance, plan and lastCreditReset change only in a
\* step of a ledger operation (a deduction, the daily reset, a credit) or of
\* the account's creation or plan change: task status polling, the
\* wav-callback, the credits query, checkCredits, the preference endpoints,
\* audio upload and serving and the video and image endpoints leave them
\* unchanged for every account on every path.
Ledger(U) ==
  [u \in DOMAIN U |->
     [credits |-> U[u].credits, planType |-> U[u].planType,
      lastCreditReset |-> U[u].lastCreditReset]]

BesideLedger ==
  {"music-status", "wav-status", "wav-callback", "credits", "checkCredits",
   "preferences", "preferences/update", "upload-audio", "audio",
   "generate-video", "generate-image"}

LedgerSteps ==
  {"deductCredits", "check-reset", "credits/deduct", "createUser", "upsertUser"}
    \cup MusicKinds \cup Deliveries

C22_OnlyLedgerStepsChangeLedger ==
  [][/\ ret'.op \in BesideLedger => Ledger(users') = Ledger(users)
     /\ Ledger(users') # Ledger(users) => ret'.op \in LedgerSteps]_vars

C22_Witness ==
  /\ ret.op = "preferences/update"
  /\ ret.res.status = 200
  /\ users[ret.uid].vocalGenderPreference = "f"
  /\ users[ret.uid].credits = 45
  /\ users[ret.uid].planType = "free"

\* C23: the zero floor of deductCredits is never used: whenever a call
\* reaches the subtraction, balance - cost >= 0, Math.max(0, balance - cost)
\* is balance - cost, and amountDeducted is the decrease of the stored
\* balance.
C23_ClampUnreachable ==
  [][\A u \in UserIds, s \in ServiceType :
       ( /\ ret'.op = "deductCredits" /\ ret'.uid = u /\ ret'.svc = s
         /\ ret'.res.success /\ ~ret'.res.wasUnlimited )
       => /\ users[u].credits - SERVICE_CREDIT_COSTS[s] >= 0
          /\ Max(0, users[u].credits - SERVICE_CREDIT_COSTS[s])
               = users[u].credits - SERVICE_CREDIT_COSTS[s]
          /\ ret'.res.amountDeducted = users[u].credits - users'[u].credits
          /\ ret'.res.newBalance = users[u].credits - SERVICE_CREDIT_COSTS[s]]_vars

C23_Witness ==
  /\ ret.op = "deductCredits"
  /\ ret.svc = "video_generation"
  /\ ret.res.success
  /\ ret.res.amountDeducted = 10
  /\ ret.res.newBalance = 0
  /\ users[ret.uid].credits = 0

\* sign-in data that carries none of the credit fields
NoCreditFields(userData) ==
  /\ userData.credits = None
  /\ userData.planType = None
  /\ userData.lastCreditReset = None

\* the step creates account u on a first authentication
FirstAuthentication(u) ==
  /\ u \notin DOMAIN users
  /\ \/ ret'.op = "createUser" /\ ret'.uid = u
     \/ /\ ret'.op = "upsertUser" /\ ret'.uid = u
        /\ NoCreditFields(ret'.userData)

\* C24: an account created on first authentication (createUser, or
\* upsertUser for an unknown id without credit fields) starts with balance
\* 50, plan free and lastCreditReset at its creation time, and its first
\* daily reset is due 24 hours after its creation and not earlier.
C24_NewAccountStartsAtFifty ==
  /\ [][\A u \in UserIds :
          FirstAuthentication(u)
          => /\ u \in DOMAIN users'
             /\ users'[u].credits = 50
             /\ users'[u].planType = "free"
             /\ users'[u].lastCreditReset = now
             /\ users'[u].createdAt = now]_vars
  /\ [][\A u \in DOMAIN users :
          ( /\ ret'.op = "check-reset" /\ ret'.uid = u /\ ret'.auth
            /\ users[u].planType = "free"
            /\ users[u].lastCreditReset = users[u].createdAt )
          => (ret'.res.resetOccurred <=> now - users[u].createdAt >= 24)]_vars

C24_Witness ==
  /\ ret.op = "check-reset"
  /\ ret.res.resetOccurred
  /\ ret.uid \in DOMAIN users
  /\ users[ret.uid].createdAt > 0
  /\ users[ret.uid].lastCreditReset = users[ret.uid].createdAt + 24

\* the answers of a music request turned down before the gateway call for
\* a reason that is not credits
RejectedBeforeGateway == {"SUNO API key not configured", "Upload URL required"}

\* C25: a music request rejected before any gateway call for a reason other
\* than credits (upload-cover-music without uploadUrl: 400; gateway key not
\* configured: 500) leaves the account's balance as it was before the
\* request.
C25_RejectedRequestKeepsBalance ==
  [][(ret'.op \in MusicKinds /\ ret'.res.error \in RejectedBeforeGateway)
       => users'[ret'.uid].credits = users[ret'.uid].credits]_vars

\* the endpoints that put a value in place of an omitted parameter, and the
\* answers of the Entitlement Guard
DefaultingEndpoints == MusicKinds \cup {"generate-video", "generate-image"}
GuardDenials == {"Model not allowed", "Resolution not allowed", "Engine not allowed"}

\* C26: for every plan the value an endpoint puts in place of an omitted
\* parameter (model 'V4_5', resolution '720p', engine 'dall-e-2') is in the
\* plan's allowed set: a request that omits the parameter is never denied
\* by the Entitlement Guard.
C26_DefaultsAlwaysAllowed ==
  [][( /\ ret'.op \in DefaultingEndpoints
       /\ IF ret'.op \in MusicKinds THEN ret'.modelOmitted
                                    ELSE ret'.requested = Omitted )
       => ret'.res.error \notin GuardDenials]_vars

\* C27: POST /api/user/credits/deduct never leaves a balance higher than
\* before the call, for any plan and any integer amount (0 and negative
\* amounts included); for studio, creator and all_access it leaves the
\* stored balance unchanged, and a free account with balance < amount is
\* refused with the balance unchanged.
C27_LegacyDeductNeverRaises ==
  [][\A u \in UserIds :
       ( /\ ret'.op = "credits/deduct" /\ ret'.uid = u /\ ret'.auth
         /\ u \in DOMAIN users )
       => /\ users'[u].credits <= users[u].credits
          /\ users[u].planType \in {"studio", "creator", "all_access"}
               => users'[u].credits = users[u].credits
          /\ (users[u].planType = "free" /\ users[u].credits < OrElse(ret'.amount, 5))
               => (ret'.res.status = 403 /\ users'[u].credits = users[u].credits)]_vars

\* C28: checkCredits and deductCredits agree: a deductCredits call that
\* follows a checkCredits call for the same account and service with no
\* operation in between succeeds exactly when the check answered allowed,
\* the reason 'unlimited' goes with wasUnlimited, and for an account that
\* does not exist both refuse.
C28_CheckAgreesWithDeduct ==
  [][( /\ ret.op = "checkCredits" /\ ret'.op = "deductCredits"
       /\ ret'.uid = ret.uid /\ ret'.svc = ret.svc )
       => /\ ret'.res.success <=> ret.res.allowed
          /\ ret'.res.wasUnlimited <=> ret.res.reason = "unlimited"
          /\ ret.uid \notin DOMAIN users
               => (~ret.res.allowed /\ ~ret'.res.success)]_vars

C28_Witness ==
  /\ ret.op = "checkCredits"
  /\ ret.svc = "video_generation"
  /\ ret.uid \in DOMAIN users
  /\ users[ret.uid].planType = "studio"
  /\ users[ret.uid].credits = 7
  /\ ~ret.res.allowed
  /\ ret.res.reason = "insufficient_credits"
  /\ ENABLED DeductCredits(ret.uid, ret.svc)

\* the plans whose maxCreditsPerDay is 'unlimited'
UnlimitedAllowancePlans == {p \in PlanType : ~HasDailyAllowance(p)}

\* C29: an account on a plan whose maxCreditsPerDay is 'unlimited' is never
\* refused for insufficient credits and never charged by deductCredits, for
\* any of the four service types.
C29_UnlimitedAllowanceNeverCharged ==
  [][\A u \in UserIds, s \in ServiceType :
       ( /\ ret'.op = "deductCredits" /\ ret'.uid = u /\ ret'.svc = s
         /\ u \in DOMAIN users
         /\ users[u].planType \in UnlimitedAllowancePlans )
       => /\ ret'.res.success
          /\ ret'.res.amountDeducted = 0
          /\ users'[u].credits = users[u].credits]_vars

\* C29 as the code has it: an account on a plan whose maxCreditsPerDay is
\* 'unlimited' is never refused and never charged for music_generation and
\* wav_conversion; for video_generation and image_generation that is so on
\* all_access only, and a studio or creator account is charged the
\* service's cost, or refused when its balance is below the cost.
C29_UnlimitedAllowancePerService ==
  [][\A u \in UserIds, s \in ServiceType :
       ( /\ ret'.op = "deductCredits" /\ ret'.uid = u /\ ret'.svc = s
         /\ u \in DOMAIN users
         /\ users[u].planType \in UnlimitedAllowancePlans )
       => IF s \in {"music_generation", "wav_conversion"}
             \/ users[u].planType = "all_access"
          THEN /\ ret'.res.success
               /\ ret'.res.amountDeducted = 0
               /\ users'[u].credits = users[u].credits
          ELSE /\ users[u].planType \in {"studio", "creator"}
               /\ ~ret'.res.wasUnlimited
               /\ ret'.res.success <=> users[u].credits >= SERVICE_CREDIT_COSTS[s]
               /\ users'[u].credits =
                    IF users[u].credits >= SERVICE_CREDIT_COSTS[s]
                    THEN users[u].credits - SERVICE_CREDIT_COSTS[s]
                    ELSE users[u].credits]_vars

C29_Witness ==
  /\ ret.op = "deductCredits"
  /\ ret.svc = "image_generation"
  /\ ret.uid \in DOMAIN users
  /\ users[ret.uid].planType = "creator"
  /\ ~ret.res.success
  /\ ret.res.error = "Insufficient credits"
  /\ users[ret.uid].credits < SERVICE_CREDIT_COSTS.image_generation

\* C30: re-authentication never alters the ledger fields: upsertUser for an
\* existing account with data that carries no credit, plan or reset field
\* leaves credits, planType and lastCreditReset unchanged, so a deduction or
\* reset that ran before the upsert is still in the stored balance after it.
C30_ReauthenticationKeepsLedger ==
  [][\A u \in UserIds :
       ( /\ ret'.op = "upsertUser" /\ ret'.uid = u
         /\ u \in DOMAIN users
         /\ NoCreditFields(ret'.userData) )
       => /\ u \in DOMAIN users'
          /\ users'[u].credits = users[u].credits
          /\ users'[u].planType = users[u].planType
          /\ users'[u].lastCreditReset = users[u].lastCreditReset]_vars

C30_Witness ==
  /\ ret.op = "upsertUser"
  /\ ~ret.isNew
  /\ NoCreditFields(ret.userData)
  /\ users[ret.uid].lastCreditReset > users[ret.uid].createdAt
  /\ users[ret.uid].credits = 50 - SERVICE_CREDIT_COSTS.music_generation

====
